---- MODULE Spec2Model ----
(***************************************************************************)
(* A model of the process-list snapshot cache (src/main.py): ProcessCache, *)
(* the refresh path and the timer of CacheManager, the query of            *)
(* ProcessFetcher.run, and ProcessManager.kill_process.                     *)
(*                                                                         *)
(* Python strings are sequences of one-character strings.  A Python dict   *)
(* (insertion ordered) is a sequence of entries [k |-> key, v |-> value]   *)
(* with pairwise distinct keys.                                            *)
(***************************************************************************)
EXTENDS Integers, Sequences, FiniteSets, TLC

VARIABLES
    process_data,      \* ProcessCache.process_data: dict pid -> record
    name_index,        \* ProcessCache.name_index: dict name -> list of pids
    port_index,        \* ProcessCache.port_index: dict port -> pid
    username_index,    \* ProcessCache.username_index: dict username -> list of pids
    last_update_time,  \* ProcessCache.last_update_time
    is_cache_valid,    \* ProcessCache.is_cache_valid
    update_lock,       \* ProcessCache._update_lock
    now,               \* the value time.time() returns
    lastOp,            \* the last operation of the sequential API and what it returned
    pc,                \* where each thread is in its code
    task,              \* what each updating thread runs update_cache for
    proc_list,         \* proc_list / process_list of each updating thread
    idx,               \* position of each updating thread in "for proc in process_list"
    raised,            \* an exception is propagating in the thread
    kill_pid,          \* pid argument of the kill_process the thread runs
    rkw,               \* keyword of the reader's search_processes call
    racc,              \* results and seen_pids of the reader's search_processes call
    clean,             \* no record was deleted while the thread was in update_cache
    gone,              \* the pids deleted by kill_process that no later fetch returned
    raced,             \* a thread has set _update_lock while another thread held it
    is_running,        \* CacheManager.is_running
    timer_active,      \* CacheManager.timer is started
    tick_pending,      \* a timeout of the timer is queued and its slot has not run yet
    stack,             \* the handlers of the GUI thread that wait at a dialog, innermost first
    force,             \* ProcessFetcher.force_refresh of the running query
    wait_time,         \* ProcessFetcher.run: how often wait_time += 0.1 was executed
    first_valid,       \* ProcessFetcher.run: what is_valid() returned at line 215
    finished,          \* the lists the running query emitted with finished
    port_pos,          \* position of each updating thread in "for port in ports.split(',')"
    riter              \* the loop of search_processes the reader is in: its iterators and loop variables

cacheVars == <<process_data, name_index, port_index, username_index,
               last_update_time, is_cache_valid, update_lock>>

\* the timer of CacheManager and the locals of ProcessFetcher.run
ctlVars == <<is_running, timer_active, tick_pending, stack,
             force, wait_time, first_valid, finished>>

\* the positions of the loops in progress
iterVars == <<port_pos, riter>>

threadVars == <<pc, task, proc_list, idx, raised, kill_pid,
                rkw, racc, clean, gone, raced,
                is_running, timer_active, tick_pending, stack,
                force, wait_time, first_valid, finished,
                port_pos, riter>>

vars == <<process_data, name_index, port_index, username_index,
          last_update_time, is_cache_valid, update_lock, now, lastOp,
          pc, task, proc_list, idx, raised, kill_pid,
          rkw, racc, clean, gone, raced,
          is_running, timer_active, tick_pending, stack,
          force, wait_time, first_valid, finished,
          port_pos, riter>>

\* ProcessCache(cache_expiry_seconds=10)
cache_expiry_seconds == 10

----------------------------------------------------------------------------
(* Strings *)

\* str.lower() / re.IGNORECASE on the characters of the model's alphabet
Lower(c) ==
    CASE c = "A" -> "a"
      [] c = "B" -> "b"
      [] c = "X" -> "x"
      [] OTHER -> c

\* keyword.lower()
RECURSIVE LowerStr(_)
LowerStr(s) ==
    IF s = <<>> THEN <<>> ELSE <<Lower(Head(s))>> \o LowerStr(Tail(s))

\* the characters re.escape puts a backslash in front of; the last one is
\* the vertical tab (character 11), written as the character itself
SpecialChars ==
    {"(", ")", "[", "]", "{", "}", "?", "*", "+", "-", "|", "^", "$",
     "\\", ".", "&", "~", "#", " ", "\t", "\n", "\r", "\f", ""}

\* re.escape(keyword)
RECURSIVE ReEscape(_)
ReEscape(s) ==
    IF s = <<>> THEN <<>>
    ELSE (IF Head(s) \in SpecialChars THEN <<"\\", Head(s)>> ELSE <<Head(s)>>)
         \o ReEscape(Tail(s))

\* str.replace(r'\*', '.*'): leftmost, non-overlapping occurrences
RECURSIVE ReplaceStar(_)
ReplaceStar(s) ==
    IF s = <<>> THEN <<>>
    ELSE IF Len(s) >= 2 /\ s[1] = "\\" /\ s[2] = "*"
         THEN <<".", "*">> \o ReplaceStar(SubSeq(s, 3, Len(s)))
         ELSE <<s[1]>> \o ReplaceStar(Tail(s))

\* pattern = re.escape(keyword).replace(r'\*', '.*')
Pattern(keyword) == ReplaceStar(ReEscape(keyword))

\* The compiled pattern p matched at position j of s, from pattern position i
\* on.  The pattern holds escaped characters (a backslash and the character),
\* plain characters, and ".*"; "." matches any character but a line break, and
\* characters compare without case (re.IGNORECASE).
RECURSIVE MatchAt(_, _, _, _)
MatchAt(p, i, s, j) ==
    IF i > Len(p) THEN TRUE
    ELSE IF p[i] = "\\" /\ i < Len(p)
    THEN /\ j <= Len(s)
         /\ Lower(s[j]) = Lower(p[i + 1])
         /\ MatchAt(p, i + 2, s, j + 1)
    ELSE IF p[i] = "." /\ i < Len(p) /\ p[i + 1] = "*"
    THEN \E k \in j..(Len(s) + 1) :
            /\ \A m \in j..(k - 1) : s[m] # "\n"
            /\ MatchAt(p, i + 2, s, k)
    ELSE /\ j <= Len(s)
         /\ Lower(s[j]) = Lower(p[i])
         /\ MatchAt(p, i + 1, s, j + 1)

\* regex.search(s): the pattern is not anchored
RegexSearch(p, s) == \E j \in 1..(Len(s) + 1) : MatchAt(p, 1, s, j)

\* str.strip() (the blank is the model's only white space in port strings)
RECURSIVE LStrip(_)
LStrip(s) == IF s # <<>> /\ Head(s) = " " THEN LStrip(Tail(s)) ELSE s

RECURSIVE RStrip(_)
RStrip(s) ==
    IF s # <<>> /\ s[Len(s)] = " " THEN RStrip(SubSeq(s, 1, Len(s) - 1)) ELSE s

Strip(s) == RStrip(LStrip(s))

\* ports.split(','): the pieces between the commas, empty pieces included
RECURSIVE SplitComma(_, _)
SplitComma(s, cur) ==
    IF s = <<>> THEN <<cur>>
    ELSE IF Head(s) = "," THEN <<cur>> \o SplitComma(Tail(s), <<>>)
    ELSE SplitComma(Tail(s), Append(cur, Head(s)))

----------------------------------------------------------------------------
(* Python dicts, insertion ordered *)

DictKeys(d) == [i \in 1..Len(d) |-> d[i].k]

DictValues(d) == [i \in 1..Len(d) |-> d[i].v]

DictHas(d, key) == \E i \in 1..Len(d) : d[i].k = key

DictGet(d, key) == d[CHOOSE i \in 1..Len(d) : d[i].k = key].v

\* d[key] = val: an existing key keeps its place
DictSet(d, key, val) ==
    IF DictHas(d, key)
    THEN [i \in 1..Len(d) |-> IF d[i].k = key THEN [k |-> key, v |-> val] ELSE d[i]]
    ELSE Append(d, [k |-> key, v |-> val])

\* del d[key]
RECURSIVE DictDel(_, _)
DictDel(d, key) ==
    IF d = <<>> THEN <<>>
    ELSE IF Head(d).k = key THEN Tail(d)
    ELSE <<Head(d)>> \o DictDel(Tail(d), key)

----------------------------------------------------------------------------
(* ProcessCache: queries *)

\* ProcessCache.is_expired
is_expired == now - last_update_time > cache_expiry_seconds

\* ProcessCache.is_valid
is_valid == is_cache_valid /\ ~is_expired

\* results.append(self.process_data[pid]); seen_pids.add(pid), for every pid
\* of pids that is not in seen_pids and is a key of process_data
RECURSIVE EmitPids(_, _, _)
EmitPids(pd, pids, acc) ==
    IF pids = <<>> THEN acc
    ELSE LET pid == Head(pids)
             nxt == IF pid \notin acc.seen /\ DictHas(pd, pid)
                    THEN [results |-> Append(acc.results, DictGet(pd, pid)),
                          seen |-> acc.seen \cup {pid}]
                    ELSE acc
         IN EmitPids(pd, Tail(pids), nxt)

\* the loop over self.process_data: the pids the pattern is found in
RECURSIVE SearchPidBlock(_, _, _, _)
SearchPidBlock(pd, p, keys, acc) ==
    IF keys = <<>> THEN acc
    ELSE SearchPidBlock(pd, p, Tail(keys),
             IF RegexSearch(p, Head(keys))
             THEN EmitPids(pd, <<Head(keys)>>, acc)
             ELSE acc)

\* the loops over self.name_index and self.username_index: the pids filed
\* under every key the pattern is found in
RECURSIVE SearchListIndexBlock(_, _, _, _)
SearchListIndexBlock(pd, ix, p, acc) ==
    IF ix = <<>> THEN acc
    ELSE SearchListIndexBlock(pd, Tail(ix), p,
             IF RegexSearch(p, Head(ix).k)
             THEN EmitPids(pd, Head(ix).v, acc)
             ELSE acc)

\* the loop over self.port_index: the pid filed under every port the pattern
\* is found in
RECURSIVE SearchPortBlock(_, _, _, _)
SearchPortBlock(pd, pix, p, acc) ==
    IF pix = <<>> THEN acc
    ELSE SearchPortBlock(pd, Tail(pix), p,
             IF RegexSearch(p, Head(pix).k)
             THEN EmitPids(pd, <<Head(pix).v>>, acc)
             ELSE acc)

\* ProcessCache.search_processes on the table pd and the indices ni, pix, ui
SearchIn(pd, ni, pix, ui, keyword) ==
    IF keyword = <<>> THEN DictValues(pd)
    ELSE LET p  == Pattern(LowerStr(keyword))
             a0 == [results |-> <<>>, seen |-> {}]
             a1 == SearchPidBlock(pd, p, DictKeys(pd), a0)
             a2 == SearchListIndexBlock(pd, ni, p, a1)
             a3 == SearchPortBlock(pd, pix, p, a2)
             a4 == SearchListIndexBlock(pd, ui, p, a3)
         IN a4.results

\* ProcessCache.search_processes on the cache as it is
search_processes(keyword) ==
    SearchIn(process_data, name_index, port_index, username_index, keyword)

\* ProcessCache.get_process_by_port: None is modelled as <<>>
get_process_by_port(port) ==
    IF DictHas(port_index, port) /\ DictGet(port_index, port) # <<>>
       /\ DictHas(process_data, DictGet(port_index, port))
    THEN DictGet(process_data, DictGet(port_index, port))
    ELSE <<>>

----------------------------------------------------------------------------
(* ProcessCache.update_cache: the statements of its body *)

\* self.process_data[pid] = proc
StoreProc(pd, proc) == DictSet(pd, proc.pid, proc)

\* if key not in index: index[key] = []
IndexEnsure(ix, key) == IF DictHas(ix, key) THEN ix ELSE DictSet(ix, key, <<>>)

\* index[key].append(pid); a missing key raises KeyError
IndexAppend(ix, key, pid) == DictSet(ix, key, Append(DictGet(ix, key), pid))

\* the port strings of a record: ports.split(','), stripped, the empty ones
\* dropped; nothing when ports is empty
RECURSIVE StripNonEmpty(_)
StripNonEmpty(pieces) ==
    IF pieces = <<>> THEN <<>>
    ELSE (IF Strip(Head(pieces)) # <<>> THEN <<Strip(Head(pieces))>> ELSE <<>>)
         \o StripNonEmpty(Tail(pieces))

PortsOf(ports) ==
    IF ports = <<>> THEN <<>> ELSE StripNonEmpty(SplitComma(ports, <<>>))

\* a port index in which the first record to claim a port keeps it (used to
\* test C21's formula)
RECURSIVE IndexPortsKeepFirst(_, _, _)
IndexPortsKeepFirst(pix, portList, pid) ==
    IF portList = <<>> THEN pix
    ELSE IndexPortsKeepFirst(
             IF DictHas(pix, Head(portList)) THEN pix
             ELSE DictSet(pix, Head(portList), pid),
             Tail(portList), pid)

\* self.port_index[port] = pid for every port of the list
RECURSIVE IndexPorts(_, _, _)
IndexPorts(pix, portList, pid) ==
    IF portList = <<>> THEN pix
    ELSE IndexPorts(DictSet(pix, Head(portList), pid), Tail(portList), pid)

\* one pass of the loop body for proc, on the four dicts c.pd, c.ni, c.ui, c.pix
RebuildOne(c, proc) ==
    [pd  |-> StoreProc(c.pd, proc),
     ni  |-> IndexAppend(IndexEnsure(c.ni, proc.name), proc.name, proc.pid),
     ui  |-> IndexAppend(IndexEnsure(c.ui, proc.username), proc.username, proc.pid),
     pix |-> IndexPorts(c.pix, PortsOf(proc.ports), proc.pid)]

\* the four clear() calls followed by the loop over process_list
RECURSIVE RebuildFrom(_, _)
RebuildFrom(c, process_list) ==
    IF process_list = <<>> THEN c
    ELSE RebuildFrom(RebuildOne(c, Head(process_list)), Tail(process_list))

\* update_cache without its four clear() calls: the rebuild would start from
\* what the cache holds (used to test C6's formula)
ClearsSkipped ==
    [pd |-> process_data, ni |-> name_index, ui |-> username_index, pix |-> port_index]

\* the four dicts after the four clear() calls
Cleared == [pd |-> <<>>, ni |-> <<>>, ui |-> <<>>, pix |-> <<>>]

Rebuilt(process_list) == RebuildFrom(Cleared, process_list)

----------------------------------------------------------------------------
(* Inputs *)

\* the wall clock when the program starts (the cache starts out expired)
StartTime == 11

\* how far the clock runs past StartTime
MaxElapsed == 12

\* the longest record list handed to a rebuild in the search model
MaxRecords == 3

\* the longest record list handed to a rebuild in the clock model
MaxClockRecords == 2

Rec(pid, name, username, ports) ==
    [pid |-> pid, name |-> name, username |-> username, ports |-> ports]

P1 == Rec(<<"1">>, <<"a", "X", "X", "X", "b">>, <<"u", "8", "0">>, <<"8", "0">>)
P2 == Rec(<<"2">>, <<"a", "b">>, <<"r", "o", "o", "t">>, <<"8", "0", ",", "8", "1">>)
P3 == Rec(<<"3">>, <<"b", "a">>, <<"u", "8", "0">>, <<>>)
P4 == Rec(<<"1", "8">>, <<"a", "\n", "b">>, <<"B", "8">>, <<"8", ",", " ", "9">>)

SearchUniverse == {P1, P2, P3, P4}

ClockUniverse == {P1, P2, P3}

\* the record lists of at most n records of U with pairwise distinct ids
RECURSIVE ListsOf(_, _)
ListsOf(U, n) ==
    IF n = 0 THEN {<<>>}
    ELSE LET shorter == ListsOf(U, n - 1)
         IN shorter \cup
            {Append(l, r) : <<l, r>> \in
                {<<l, r>> \in shorter \X U :
                    \A i \in 1..Len(l) : l[i].pid # r.pid}}

\* the record lists the search model rebuilds from
SearchLists == ListsOf(SearchUniverse, MaxRecords)

\* the record lists the clock model rebuilds from
ClockLists == ListsOf(ClockUniverse, MaxClockRecords)

Keywords ==
    { <<>>,
      <<"a">>, <<"a", "b">>, <<"A", "B">>, <<"a", "*", "b">>, <<"b", "*", "a">>,
      <<"x", "b">>, <<"*">>, <<"1">>, <<"8">>, <<"8", "0">>, <<"8", "*">>, <<"9">>,
      <<"0", ",", "8">>, <<"u", "8", "0">>, <<"r", "o", "o", "t">>,
      <<".">>, <<"9", "9">>, <<"">> }

\* the ports get_process_by_port is asked for: those of the records, and one
\* that no record has
QueriedPorts == {<<"8", "0">>, <<"8", "1">>, <<"8">>, <<"9">>, <<"7">>}

----------------------------------------------------------------------------
(* Threads *)

\* The callers of ProcessCache.update_cache.  "main" is the GUI thread: it
\* runs force_refresh, kill_process and the slot of the timer,
\* CacheManager.update_cache (the CacheManager object is made in the GUI thread
\* and stays there; only its timer is moved to the thread it starts), one
\* handler at a time.  "other" is a thread that calls ProcessCache.update_cache
\* on its own account: the second of the two overlapping callers the guard
\* _update_lock is there for.  The thread of ProcessFetcher calls
\* search_processes.
Updaters == {"main", "other"}

Threads == Updaters \cup {"reader"}

\* where a handler of the GUI thread shows a modal dialog (QMessageBox at lines
\* 562, 569, 578 and 471): the dialog runs an event loop of its own, in which
\* a queued call of the timer's slot is delivered
Dialogs == {"kill_ask", "kill_told", "kill_warn", "cm_failed"}

\* how many handlers wait at a dialog while another one runs inside it
MaxNesting == 1

\* no handler: the thread is in its event loop
NoFrame == [pc |-> "idle", task |-> "none", proc_list |-> <<>>, idx |-> 0,
            kill_pid |-> <<>>]

\* results = [], seen_pids = set()
NoResults == [results |-> <<>>, seen |-> {}]

\* The reader is in no loop.  In a loop of search_processes: loop names the
\* dict of the outer "for", len is the size the dict had when the loop's
\* iterator was made, pos the number of keys the iterator has handed out, key
\* the loop variable; of the inner "for pid in index[key]", live says that the
\* list iterated is still the one the index holds under key, list is what the
\* list holds once it is not, lpos is the number of pids handed out, and pid
\* is the pid at hand.
NoIter == [loop |-> "none", pos |-> 0, len |-> 0, key |-> <<>>,
           live |-> FALSE, list |-> <<>>, lpos |-> 0, pid |-> <<>>]

----------------------------------------------------------------------------
(* The state after construction: ProcessCache.__init__ *)

NoOp(name) == [op |-> name, arg |-> <<>>, ret |-> <<>>]

Init ==
    /\ process_data = <<>>
    /\ name_index = <<>>
    /\ port_index = <<>>
    /\ username_index = <<>>
    /\ last_update_time = 0
    /\ is_cache_valid = FALSE
    /\ update_lock = FALSE
    /\ now = StartTime
    /\ lastOp = NoOp("init")
    /\ pc = [t \in Threads |-> "idle"]
    /\ task = [t \in Updaters |-> "none"]
    /\ proc_list = [t \in Updaters |-> <<>>]
    /\ idx = [t \in Updaters |-> 0]
    /\ raised = [t \in Updaters |-> FALSE]
    /\ kill_pid = [t \in Updaters |-> <<>>]
    /\ rkw = <<>>
    /\ racc = NoResults
    /\ clean = [t \in Updaters |-> TRUE]
    /\ gone = {}
    /\ raced = FALSE
    /\ is_running = FALSE
    /\ timer_active = FALSE
    /\ tick_pending = FALSE
    /\ stack = <<>>
    /\ force = FALSE
    /\ wait_time = 0
    /\ first_valid = "none"
    /\ finished = <<>>
    /\ port_pos = [t \in Updaters |-> 1]
    /\ riter = NoIter

----------------------------------------------------------------------------
(* The operations of the cache, each run to completion by a single caller *)

\* ProcessCache.update_cache(process_list)
update_cache(process_list) ==
    /\ IF update_lock
       THEN UNCHANGED cacheVars
       ELSE LET c == Rebuilt(process_list)
            IN /\ process_data' = c.pd
               /\ name_index' = c.ni
               /\ port_index' = c.pix
               /\ username_index' = c.ui
               /\ last_update_time' = now
               /\ is_cache_valid' = TRUE
               /\ update_lock' = FALSE
    /\ lastOp' = [op |-> "update_cache", arg |-> process_list, ret |-> <<>>]
    /\ UNCHANGED <<now, threadVars>>

\* ProcessCache.search_processes(keyword)
Search(keyword) ==
    /\ lastOp' = [op |-> "search_processes", arg |-> keyword,
                  ret |-> search_processes(keyword)]
    /\ UNCHANGED <<cacheVars, now, threadVars>>

\* ProcessCache.get_process_by_port(port)
GetByPort(port) ==
    /\ lastOp' = [op |-> "get_process_by_port", arg |-> port,
                  ret |-> get_process_by_port(port)]
    /\ UNCHANGED <<cacheVars, now, threadVars>>

\* ProcessCache.is_valid()
IsValidCall ==
    /\ lastOp' = [op |-> "is_valid", arg |-> <<>>, ret |-> is_valid]
    /\ UNCHANGED <<cacheVars, now, threadVars>>

\* invalidate_cache that also resets the refresh time, as clear_cache does
\* (used to test C12's formula)
invalidate_cache_resetting_time ==
    /\ is_cache_valid' = FALSE
    /\ last_update_time' = 0
    /\ lastOp' = NoOp("invalidate_cache")
    /\ UNCHANGED <<process_data, name_index, port_index, username_index,
                   update_lock, now, threadVars>>

\* ProcessCache.invalidate_cache()
invalidate_cache ==
    /\ is_cache_valid' = FALSE
    /\ lastOp' = NoOp("invalidate_cache")
    /\ UNCHANGED <<process_data, name_index, port_index, username_index,
                   last_update_time, update_lock, now, threadVars>>

\* ProcessCache.clear_cache()
clear_cache ==
    /\ process_data' = <<>>
    /\ name_index' = <<>>
    /\ port_index' = <<>>
    /\ username_index' = <<>>
    /\ is_cache_valid' = FALSE
    /\ last_update_time' = 0
    /\ lastOp' = NoOp("clear_cache")
    /\ UNCHANGED <<update_lock, now, threadVars>>

\* the fields of the cache as they are
CacheNow ==
    [pd |-> process_data, ni |-> name_index, pix |-> port_index,
     ui |-> username_index, time |-> last_update_time, valid |-> is_cache_valid]

\* the fields of cache c after update_cache(process_list), run to completion
AfterUpdate(c, process_list) ==
    IF update_lock THEN c
    ELSE LET r == Rebuilt(process_list)
         IN [pd |-> r.pd, ni |-> r.ni, pix |-> r.pix, ui |-> r.ui,
             time |-> now, valid |-> TRUE]

\* kill_process, lines 572 to 575: if str(pid) in self.cache.process_data: del
\* self.cache.process_data[str(pid)], then
\* self.cache.update_cache(list(self.cache.process_data.values()))
AfterRemoval(c, pid) ==
    IF DictHas(c.pd, pid)
    THEN AfterUpdate([c EXCEPT !.pd = DictDel(c.pd, pid)],
                     DictValues(DictDel(c.pd, pid)))
    ELSE c

\* what the record source does when the clock model's kill_process refreshes:
\* it returns a list of records, or it raises
ClockFetches == {<<"ok", l>> : l \in ClockLists} \cup {<<"raise", <<>>>>}

\* ProcessManager.kill_process(pid), confirmed by the user and run to
\* completion: terminating the process succeeds and the record is removed
\* from the cache, or it raises and the except clause runs; then the closing
\* self.force_refresh(), CacheManager.update_cache in the same thread: the
\* fetch returns a list and the cache is rebuilt from it, or the fetch raises
\* and cache_update_failed is emitted.  ret is what the fetch did.
KillProcessCall(pid) ==
    \E terminated \in BOOLEAN, fetch \in ClockFetches :
        LET removed == IF terminated THEN AfterRemoval(CacheNow, pid) ELSE CacheNow
            c == IF fetch[1] = "ok" THEN AfterUpdate(removed, fetch[2]) ELSE removed
        IN /\ process_data' = c.pd
           /\ name_index' = c.ni
           /\ port_index' = c.pix
           /\ username_index' = c.ui
           /\ last_update_time' = c.time
           /\ is_cache_valid' = c.valid
           /\ UNCHANGED update_lock
           /\ lastOp' = [op |-> "kill_process", arg |-> pid, ret |-> fetch]
           /\ UNCHANGED <<now, threadVars>>

\* the clock advances by one second
Tick ==
    /\ now < StartTime + MaxElapsed
    /\ now' = now + 1
    /\ lastOp' = NoOp("tick")
    /\ UNCHANGED <<cacheVars, threadVars>>

----------------------------------------------------------------------------
(* The search model: rebuilds and searches *)

NextSearch ==
    \/ \E l \in SearchLists : update_cache(l)
    \/ \E k \in Keywords : Search(k)
    \/ \E q \in QueriedPorts : GetByPort(q)

SpecSearch == Init /\ [][NextSearch]_vars

(* The clock model: one caller, the clock, and every operation of the cache *)

NextClock ==
    \/ \E l \in ClockLists : update_cache(l)
    \/ \E r \in ClockUniverse : KillProcessCall(r.pid)
    \/ invalidate_cache
    \/ clear_cache
    \/ IsValidCall
    \/ Search(<<>>)
    \/ Tick

SpecClock == Init /\ [][NextClock]_vars

----------------------------------------------------------------------------
(* The threads of the program, one statement at a time *)

\* what the record source returns in the thread model
ConcSources == {<<P1, P2>>, <<P3>>}

\* the pids the user asks to kill in the thread model
KillPids == {P1.pid}

\* the keywords the reader searches for in the thread model
ReaderKeywords == {<<>>, <<"8", "0">>, <<"*">>}

seqVars == <<now, lastOp>>

readerVars == <<rkw, racc>>

Goto(t, label) == pc' = [pc EXCEPT ![t] = label]

\* where update_cache returns to in the thread's caller: in
\* CacheManager.update_cache the emit of cache_updated, or the except clause
\* when an exception propagates; in kill_process the force_refresh that ends
\* it, by way of the except clause and its dialog when an exception
\* propagates; in the other thread the caller's next statement
AfterCall(t, exception) ==
    IF task[t] = "kill" THEN (IF exception THEN "kill_warn" ELSE "kill_force")
    ELSE IF task[t] = "call" THEN (IF exception THEN "call_raised" ELSE "call_done")
    ELSE IF exception THEN "cm_failed" ELSE "cm_emit"

\* The reader iterates a list that the index "which" holds under key.
ReaderHolds(which, key) ==
    /\ pc["reader"] \in {"rd_in", "rd_test", "rd_emit"}
    /\ riter.loop = which
    /\ riter.live
    /\ riter.key = key

\* The index ix drops the list it holds under key (clear(), or a new list is
\* assigned to the key): a reader that iterates the dropped list keeps it as
\* it is now, whatever the index is given afterwards.
DropList(which, ix, key) ==
    IF ReaderHolds(which, key)
    THEN [riter EXCEPT !.live = FALSE, !.list = DictGet(ix, key)]
    ELSE riter

\* the statements of ProcessCache.update_cache
UcLabels ==
    {"uc_check", "uc_set", "uc_clear_pd", "uc_clear_ni", "uc_clear_pix",
     "uc_clear_ui", "uc_store", "uc_name_test", "uc_name_ensure",
     "uc_name_append", "uc_user_test", "uc_user_ensure",
     "uc_user_append", "uc_ports", "uc_stamp", "uc_valid",
     "uc_finally"}

\* the thread is inside ProcessCache.update_cache
InUpdateCache(t) == pc[t] \in UcLabels

\* the thread is inside the clear-and-refill body of update_cache
InBody(t) == InUpdateCache(t) /\ pc[t] \notin {"uc_check", "uc_set"}

\* what a handler runs CacheManager.update_cache for: the forced refresh, or
\* the timeout of the timer
RefreshTasks == {"refresh", "timer"}

\* the thread is inside CacheManager.update_cache, between the start of its
\* fetch and the end of its rebuild
InRefresh(t) == task[t] \in RefreshTasks /\ (pc[t] = "cm_fetch" \/ InUpdateCache(t))

\* the handler the thread is in: where it is and its locals
Frame(t) ==
    [pc |-> pc[t], task |-> task[t], proc_list |-> proc_list[t], idx |-> idx[t],
     kill_pid |-> kill_pid[t]]

\* The handler returns and its locals are dropped: the thread is back in its
\* event loop, or, when the handler ran inside the dialog of another handler
\* of the GUI thread, back in that dialog.
Return(t) ==
    LET inner == t = "main" /\ stack # <<>>
        f == IF inner THEN Head(stack) ELSE NoFrame
    IN /\ Goto(t, f.pc)
       /\ task' = [task EXCEPT ![t] = f.task]
       /\ proc_list' = [proc_list EXCEPT ![t] = f.proc_list]
       /\ idx' = [idx EXCEPT ![t] = f.idx]
       /\ kill_pid' = [kill_pid EXCEPT ![t] = f.kill_pid]
       /\ clean' = [clean EXCEPT ![t] = TRUE]
       /\ stack' = IF inner THEN Tail(stack) ELSE stack

\* the head of "for proc in process_list", entered with position k
LoopHead(t, k) == IF k <= Len(proc_list[t]) THEN "uc_store" ELSE "uc_stamp"

\* CacheManager.start_auto_update, called in the GUI thread: is_running is
\* set and the timer is asked to start.  The timer belongs to the thread of
\* CacheManager (line 263) and is started from the GUI thread: it runs from
\* then on, or the start is refused and it never times out.
start_auto_update ==
    /\ pc["main"] = "idle"
    /\ is_running' = TRUE
    /\ timer_active' \in BOOLEAN
    /\ UNCHANGED <<cacheVars, seqVars, iterVars, pc, task, proc_list, idx, raised, kill_pid,
                   readerVars, clean, gone, raced, tick_pending, stack,
                   force, wait_time, first_valid, finished>>

\* CacheManager.stop_auto_update, called in the GUI thread: the timer is
\* stopped; nothing is done about a timeout that is already queued
stop_auto_update ==
    /\ pc["main"] = "idle"
    /\ is_running' = FALSE
    /\ timer_active' = FALSE
    /\ UNCHANGED <<cacheVars, seqVars, iterVars, pc, task, proc_list, idx, raised, kill_pid,
                   readerVars, clean, gone, raced, tick_pending, stack,
                   force, wait_time, first_valid, finished>>

\* the started timer times out in its thread: the call of the connected slot
\* is queued for the GUI thread
TimerTimeout ==
    /\ timer_active
    /\ ~tick_pending
    /\ tick_pending' = TRUE
    /\ UNCHANGED <<cacheVars, seqVars, iterVars, pc, task, proc_list, idx, raised, kill_pid,
                   readerVars, clean, gone, raced, is_running, timer_active, stack,
                   force, wait_time, first_valid, finished>>

\* a delivery of the queued timeout that would not wait for the handler at
\* work: the slot starts wherever the GUI thread is, as a slot running in a
\* thread of its own would (used to test C4's formula)
TimerDeliverAnywhere ==
    /\ tick_pending
    /\ pc["main"] = "idle" \/ Len(stack) < MaxNesting
    /\ tick_pending' = FALSE
    /\ stack' = IF pc["main"] = "idle" THEN stack ELSE <<Frame("main")>> \o stack
    /\ Goto("main", "cm_fetch")
    /\ task' = [task EXCEPT !["main"] = "timer"]
    /\ proc_list' = [proc_list EXCEPT !["main"] = <<>>]
    /\ idx' = [idx EXCEPT !["main"] = 0]
    /\ kill_pid' = [kill_pid EXCEPT !["main"] = <<>>]
    /\ UNCHANGED <<cacheVars, seqVars, iterVars, raised,
                   readerVars, clean, gone, raced, is_running, timer_active,
                   force, wait_time, first_valid, finished>>

\* The queued timeout is delivered by an event loop of the GUI thread: the
\* slot CacheManager.update_cache starts when the thread is in its event loop,
\* or inside the dialog a handler is showing, which then waits until the slot
\* has returned.  update_cache does not look at is_running.
TimerDeliver ==
    /\ tick_pending
    /\ \/ pc["main"] = "idle"
       \/ pc["main"] \in Dialogs /\ Len(stack) < MaxNesting
    /\ tick_pending' = FALSE
    /\ stack' = IF pc["main"] = "idle" THEN stack ELSE <<Frame("main")>> \o stack
    /\ Goto("main", "cm_fetch")
    /\ task' = [task EXCEPT !["main"] = "timer"]
    /\ proc_list' = [proc_list EXCEPT !["main"] = <<>>]
    /\ idx' = [idx EXCEPT !["main"] = 0]
    /\ kill_pid' = [kill_pid EXCEPT !["main"] = <<>>]
    /\ UNCHANGED <<cacheVars, seqVars, iterVars, raised,
                   readerVars, clean, gone, raced, is_running, timer_active,
                   force, wait_time, first_valid, finished>>

\* ProcessManager.force_refresh: cache_manager.force_update(), which calls
\* CacheManager.update_cache in the calling thread
force_refresh ==
    /\ pc["main"] = "idle"
    /\ Goto("main", "cm_fetch")
    /\ task' = [task EXCEPT !["main"] = "refresh"]
    /\ UNCHANGED <<cacheVars, seqVars, ctlVars, iterVars, proc_list, idx, raised, kill_pid,
                   readerVars, clean, gone, raced>>

\* a thread other than the GUI thread calls
\* ProcessCache.update_cache(process_list) with records of the record source
CallUpdateCache(process_list) ==
    /\ pc["other"] = "idle"
    /\ task' = [task EXCEPT !["other"] = "call"]
    /\ proc_list' = [proc_list EXCEPT !["other"] = process_list]
    /\ gone' = gone \ {process_list[i].pid : i \in 1..Len(process_list)}
    /\ Goto("other", "uc_check")
    /\ UNCHANGED <<cacheVars, seqVars, ctlVars, iterVars, idx, raised, kill_pid,
                   readerVars, clean, raced>>

\* ... and its call has returned, or an exception has left it
CallReturns ==
    /\ pc["other"] \in {"call_done", "call_raised"}
    /\ Return("other")
    /\ UNCHANGED <<cacheVars, seqVars, iterVars, raised, readerVars, gone, raced,
                   is_running, timer_active, tick_pending,
                   force, wait_time, first_valid, finished>>

\* CacheManager.update_cache: proc_list = SystemDataFetcher.fetch_all_processes()
FetchOk(t) ==
    /\ pc[t] = "cm_fetch"
    /\ \E l \in ConcSources :
          /\ proc_list' = [proc_list EXCEPT ![t] = l]
          /\ gone' = gone \ {l[i].pid : i \in 1..Len(l)}
    /\ Goto(t, "uc_check")
    /\ UNCHANGED <<cacheVars, seqVars, ctlVars, iterVars, task, idx, raised, kill_pid, readerVars,
                   clean, raced>>

\* a failing fetch that would also mark the cache invalid (used to test C13's
\* formula)
FetchRaiseInvalidating(t) ==
    /\ pc[t] = "cm_fetch"
    /\ is_cache_valid' = FALSE
    /\ Goto(t, "cm_failed")
    /\ UNCHANGED <<process_data, name_index, port_index, username_index,
                   last_update_time, update_lock, seqVars, ctlVars, iterVars, task,
                   proc_list, idx, raised, kill_pid, readerVars, clean, gone,
                   raced>>

\* ... or the fetch raises
FetchRaise(t) ==
    /\ pc[t] = "cm_fetch"
    /\ Goto(t, "cm_failed")
    /\ UNCHANGED <<cacheVars, seqVars, ctlVars, iterVars, task, proc_list, idx, raised, kill_pid,
                   readerVars, clean, gone, raced>>

\* ProcessCache.update_cache: if self._update_lock: return
UcCheck(t) ==
    /\ pc[t] = "uc_check"
    /\ Goto(t, IF update_lock THEN AfterCall(t, FALSE) ELSE "uc_set")
    /\ clean' = [clean EXCEPT ![t] = TRUE]
    /\ UNCHANGED <<cacheVars, seqVars, ctlVars, iterVars, task, proc_list, idx, raised, kill_pid,
                   readerVars, gone, raced>>

\* self._update_lock = True
UcSet(t) ==
    /\ pc[t] = "uc_set"
    /\ update_lock' = TRUE
    /\ raced' = (raced \/ update_lock)
    /\ Goto(t, "uc_clear_pd")
    /\ UNCHANGED <<process_data, name_index, port_index, username_index,
                   last_update_time, is_cache_valid, seqVars, ctlVars, iterVars, task, proc_list,
                   idx, raised, kill_pid, readerVars, clean, gone>>

\* self.process_data.clear()
UcClearData(t) ==
    /\ pc[t] = "uc_clear_pd"
    /\ process_data' = <<>>
    /\ Goto(t, "uc_clear_ni")
    /\ UNCHANGED <<name_index, port_index, username_index, last_update_time,
                   is_cache_valid, update_lock, seqVars, ctlVars, iterVars, task, proc_list, idx,
                   raised, kill_pid, readerVars, clean, gone, raced>>

\* self.name_index.clear()
UcClearNames(t) ==
    /\ pc[t] = "uc_clear_ni"
    /\ name_index' = <<>>
    /\ riter' = DropList("names", name_index, riter.key)
    /\ Goto(t, "uc_clear_pix")
    /\ UNCHANGED <<process_data, port_index, username_index, last_update_time,
                   is_cache_valid, update_lock, seqVars, ctlVars, port_pos, task,
                   proc_list, idx, raised, kill_pid, readerVars, clean, gone,
                   raced>>

\* self.port_index.clear()
UcClearPorts(t) ==
    /\ pc[t] = "uc_clear_pix"
    /\ port_index' = <<>>
    /\ Goto(t, "uc_clear_ui")
    /\ UNCHANGED <<process_data, name_index, username_index, last_update_time,
                   is_cache_valid, update_lock, seqVars, ctlVars, iterVars, task, proc_list, idx,
                   raised, kill_pid, readerVars, clean, gone, raced>>

\* self.username_index.clear(), then the head of the loop
UcClearUsers(t) ==
    /\ pc[t] = "uc_clear_ui"
    /\ username_index' = <<>>
    /\ riter' = DropList("users", username_index, riter.key)
    /\ idx' = [idx EXCEPT ![t] = 1]
    /\ Goto(t, LoopHead(t, 1))
    /\ UNCHANGED <<process_data, name_index, port_index, last_update_time,
                   is_cache_valid, update_lock, seqVars, ctlVars, port_pos, task,
                   proc_list, raised, kill_pid, readerVars, clean, gone, raced>>

\* self.process_data[pid] = proc
UcStore(t) ==
    /\ pc[t] = "uc_store"
    /\ process_data' = StoreProc(process_data, proc_list[t][idx[t]])
    /\ Goto(t, "uc_name_test")
    /\ UNCHANGED <<name_index, port_index, username_index, last_update_time,
                   is_cache_valid, update_lock, seqVars, ctlVars, iterVars, task, proc_list, idx,
                   raised, kill_pid, readerVars, clean, gone, raced>>

\* if name not in self.name_index:
UcNameTest(t) ==
    /\ pc[t] = "uc_name_test"
    /\ Goto(t, IF DictHas(name_index, proc_list[t][idx[t]].name)
                THEN "uc_name_append" ELSE "uc_name_ensure")
    /\ UNCHANGED <<cacheVars, seqVars, ctlVars, iterVars, task, proc_list, idx,
                   raised, kill_pid, readerVars, clean, gone, raced>>

\* self.name_index[name] = [], whatever the key holds by now
UcNameEnsure(t) ==
    /\ pc[t] = "uc_name_ensure"
    /\ name_index' = DictSet(name_index, proc_list[t][idx[t]].name, <<>>)
    /\ riter' = DropList("names", name_index, proc_list[t][idx[t]].name)
    /\ Goto(t, "uc_name_append")
    /\ UNCHANGED <<process_data, port_index, username_index, last_update_time,
                   is_cache_valid, update_lock, seqVars, ctlVars, port_pos, task,
                   proc_list, idx, raised, kill_pid, readerVars, clean, gone,
                   raced>>

\* self.name_index[name].append(pid): KeyError when the key is gone
UcNameAppend(t) ==
    /\ pc[t] = "uc_name_append"
    /\ LET proc == proc_list[t][idx[t]]
       IN IF DictHas(name_index, proc.name)
          THEN /\ name_index' = IndexAppend(name_index, proc.name, proc.pid)
               /\ Goto(t, "uc_user_test")
               /\ UNCHANGED raised
          ELSE /\ raised' = [raised EXCEPT ![t] = TRUE]
               /\ Goto(t, "uc_finally")
               /\ UNCHANGED name_index
    /\ UNCHANGED <<process_data, port_index, username_index, last_update_time,
                   is_cache_valid, update_lock, seqVars, ctlVars, iterVars, task, proc_list, idx,
                   kill_pid, readerVars, clean, gone, raced>>

\* if username not in self.username_index:
UcUserTest(t) ==
    /\ pc[t] = "uc_user_test"
    /\ Goto(t, IF DictHas(username_index, proc_list[t][idx[t]].username)
                THEN "uc_user_append" ELSE "uc_user_ensure")
    /\ UNCHANGED <<cacheVars, seqVars, ctlVars, iterVars, task, proc_list, idx,
                   raised, kill_pid, readerVars, clean, gone, raced>>

\* self.username_index[username] = [], whatever the key holds by now
UcUserEnsure(t) ==
    /\ pc[t] = "uc_user_ensure"
    /\ username_index' = DictSet(username_index, proc_list[t][idx[t]].username, <<>>)
    /\ riter' = DropList("users", username_index, proc_list[t][idx[t]].username)
    /\ Goto(t, "uc_user_append")
    /\ UNCHANGED <<process_data, name_index, port_index, last_update_time,
                   is_cache_valid, update_lock, seqVars, ctlVars, port_pos, task,
                   proc_list, idx, raised, kill_pid, readerVars, clean, gone,
                   raced>>

\* self.username_index[username].append(pid): KeyError when the key is gone
UcUserAppend(t) ==
    /\ pc[t] = "uc_user_append"
    /\ LET proc == proc_list[t][idx[t]]
       IN IF DictHas(username_index, proc.username)
          THEN /\ username_index' = IndexAppend(username_index, proc.username, proc.pid)
               /\ Goto(t, "uc_ports")
               /\ UNCHANGED raised
          ELSE /\ raised' = [raised EXCEPT ![t] = TRUE]
               /\ Goto(t, "uc_finally")
               /\ UNCHANGED username_index
    /\ UNCHANGED <<process_data, name_index, port_index, last_update_time,
                   is_cache_valid, update_lock, seqVars, ctlVars, iterVars, task, proc_list, idx,
                   kill_pid, readerVars, clean, gone, raced>>

\* if ports: for port in ports.split(','): port = port.strip(); if port:
\* self.port_index[port] = pid.  One step is one round that writes: the next
\* non-empty port of the record is filed.  After the last one, or at once when
\* the record has none, the thread is at the head of the loop over the records.
UcPorts(t) ==
    /\ pc[t] = "uc_ports"
    /\ LET proc == proc_list[t][idx[t]]
           ports == PortsOf(proc.ports)
       IN /\ port_index' = IF port_pos[t] <= Len(ports)
                           THEN DictSet(port_index, ports[port_pos[t]], proc.pid)
                           ELSE port_index
          /\ IF port_pos[t] < Len(ports)
             THEN /\ port_pos' = [port_pos EXCEPT ![t] = port_pos[t] + 1]
                  /\ UNCHANGED <<idx, pc>>
             ELSE /\ port_pos' = [port_pos EXCEPT ![t] = 1]
                  /\ idx' = [idx EXCEPT ![t] = idx[t] + 1]
                  /\ Goto(t, LoopHead(t, idx[t] + 1))
    /\ UNCHANGED <<process_data, name_index, username_index, last_update_time,
                   is_cache_valid, update_lock, seqVars, ctlVars, riter,
                   task, proc_list, raised, kill_pid, readerVars, clean, gone,
                   raced>>

\* self.last_update_time = time.time()
UcStamp(t) ==
    /\ pc[t] = "uc_stamp"
    /\ last_update_time' = now
    /\ Goto(t, "uc_valid")
    /\ UNCHANGED <<process_data, name_index, port_index, username_index,
                   is_cache_valid, update_lock, seqVars, ctlVars, iterVars, task, proc_list, idx,
                   raised, kill_pid, readerVars, clean, gone, raced>>

\* self.is_cache_valid = True
UcValid(t) ==
    /\ pc[t] = "uc_valid"
    /\ is_cache_valid' = TRUE
    /\ Goto(t, "uc_finally")
    /\ UNCHANGED <<process_data, name_index, port_index, username_index,
                   last_update_time, update_lock, seqVars, ctlVars, iterVars, task, proc_list,
                   idx, raised, kill_pid, readerVars, clean, gone, raced>>

\* update_cache without its finally clause: the flag would be cleared at the
\* end of the body only, not when an exception leaves it (used to test C22's
\* formula)
UcEndWithoutFinally(t) ==
    /\ pc[t] = "uc_finally"
    /\ update_lock' = raised[t]
    /\ raised' = [raised EXCEPT ![t] = FALSE]
    /\ Goto(t, AfterCall(t, raised[t]))
    /\ UNCHANGED <<process_data, name_index, port_index, username_index,
                   last_update_time, is_cache_valid, seqVars, ctlVars, iterVars, task,
                   proc_list, idx, kill_pid, readerVars, clean, gone, raced>>

\* finally: self._update_lock = False, and the return to the caller
UcFinally(t) ==
    /\ pc[t] = "uc_finally"
    /\ update_lock' = FALSE
    /\ raised' = [raised EXCEPT ![t] = FALSE]
    /\ Goto(t, AfterCall(t, raised[t]))
    /\ UNCHANGED <<process_data, name_index, port_index, username_index,
                   last_update_time, is_cache_valid, seqVars, ctlVars, iterVars, task, proc_list,
                   idx, kill_pid, readerVars, clean, gone, raced>>

\* CacheManager.update_cache: self.cache_updated.emit(proc_list), and the
\* handler returns
CmEmit(t) ==
    /\ pc[t] = "cm_emit"
    /\ Return(t)
    /\ UNCHANGED <<cacheVars, seqVars, iterVars, raised, readerVars, gone, raced,
                   is_running, timer_active, tick_pending,
                   force, wait_time, first_valid, finished>>

\* CacheManager.update_cache: except ...: self.cache_update_failed.emit(str(e)),
\* whose slot on_cache_update_failed shows a warning dialog (line 471); the
\* dialog is closed and the handler returns
CmFailed(t) ==
    /\ pc[t] = "cm_failed"
    /\ Return(t)
    /\ UNCHANGED <<cacheVars, seqVars, iterVars, raised, readerVars, gone, raced,
                   is_running, timer_active, tick_pending,
                   force, wait_time, first_valid, finished>>

\* ProcessManager.kill_process(pid, name): the dialog that asks whether to
\* terminate the process is shown
kill_process(pid) ==
    /\ pc["main"] = "idle"
    /\ kill_pid' = [kill_pid EXCEPT !["main"] = pid]
    /\ task' = [task EXCEPT !["main"] = "kill"]
    /\ Goto("main", "kill_ask")
    /\ UNCHANGED <<cacheVars, seqVars, ctlVars, iterVars, proc_list, idx, raised, readerVars,
                   clean, gone, raced>>

\* the reply is not Yes: kill_process returns
KillDeclined ==
    /\ pc["main"] = "kill_ask"
    /\ Return("main")
    /\ UNCHANGED <<cacheVars, seqVars, iterVars, raised, readerVars, gone, raced,
                   is_running, timer_active, tick_pending,
                   force, wait_time, first_valid, finished>>

\* the reply is Yes: the process is terminated and the dialog that says so is
\* shown (lines 565 to 569), or terminating raises and the except clause shows
\* its warning dialog (lines 577 and 578)
KillConfirmed ==
    /\ pc["main"] = "kill_ask"
    /\ \/ Goto("main", "kill_told")
       \/ Goto("main", "kill_warn")
    /\ UNCHANGED <<cacheVars, seqVars, ctlVars, iterVars, task, proc_list, idx, raised, kill_pid,
                   readerVars, clean, gone, raced>>

\* the dialog of line 569 is closed
KillTold ==
    /\ pc["main"] = "kill_told"
    /\ Goto("main", "kill_check")
    /\ UNCHANGED <<cacheVars, seqVars, ctlVars, iterVars, task, proc_list, idx, raised, kill_pid,
                   readerVars, clean, gone, raced>>

\* if str(pid) in self.cache.process_data:
KillCheck ==
    /\ pc["main"] = "kill_check"
    /\ Goto("main", IF DictHas(process_data, kill_pid["main"])
                    THEN "kill_del" ELSE "kill_force")
    /\ UNCHANGED <<cacheVars, seqVars, ctlVars, iterVars, task, proc_list, idx, raised, kill_pid,
                   readerVars, clean, gone, raced>>

\* del self.cache.process_data[str(pid)]: KeyError when the key is gone
KillDel ==
    /\ pc["main"] = "kill_del"
    /\ IF DictHas(process_data, kill_pid["main"])
       THEN /\ process_data' = DictDel(process_data, kill_pid["main"])
            /\ gone' = gone \cup {kill_pid["main"]}
            /\ clean' = [t \in Updaters |-> ~InUpdateCache(t) /\ clean[t]]
            /\ Goto("main", "kill_args")
       ELSE /\ Goto("main", "kill_warn")
            /\ UNCHANGED <<process_data, gone, clean>>
    /\ UNCHANGED <<name_index, port_index, username_index, last_update_time,
                   is_cache_valid, update_lock, seqVars, ctlVars, iterVars, task, proc_list, idx,
                   raised, kill_pid, readerVars, raced>>

\* self.cache.update_cache(list(self.cache.process_data.values())): the
\* argument is evaluated, then the call
KillArgs ==
    /\ pc["main"] = "kill_args"
    /\ proc_list' = [proc_list EXCEPT !["main"] = DictValues(process_data)]
    /\ Goto("main", "uc_check")
    /\ UNCHANGED <<cacheVars, seqVars, ctlVars, iterVars, task, idx, raised, kill_pid, readerVars,
                   clean, gone, raced>>

\* the warning dialog of the except clause (line 578) is closed
KillWarned ==
    /\ pc["main"] = "kill_warn"
    /\ Goto("main", "kill_force")
    /\ UNCHANGED <<cacheVars, seqVars, ctlVars, iterVars, task, proc_list, idx, raised, kill_pid,
                   readerVars, clean, gone, raced>>

\* the self.force_refresh() that ends kill_process
KillForce ==
    /\ pc["main"] = "kill_force"
    /\ task' = [task EXCEPT !["main"] = "refresh"]
    /\ Goto("main", "cm_fetch")
    /\ UNCHANGED <<cacheVars, seqVars, ctlVars, iterVars, proc_list, idx, raised, kill_pid,
                   readerVars, clean, gone, raced>>

\* the dict the reader's outer loop runs over
LoopDict(which) ==
    CASE which = "pids" -> process_data
      [] which = "names" -> name_index
      [] which = "ports" -> port_index
      [] OTHER -> username_index

\* the loop of search_processes that follows the loop "which"
FollowingLoop(which) ==
    CASE which = "pids" -> "names"
      [] which = "names" -> "ports"
      [] which = "ports" -> "users"
      [] OTHER -> "none"

\* what the steps of the reader leave alone
readerFrame == <<cacheVars, seqVars, ctlVars, port_pos, task, proc_list, idx,
                 raised, kill_pid, clean, gone, raced>>

\* an exception leaves search_processes: nothing is returned
SearchRaises ==
    /\ Goto("reader", "rd_raised")
    /\ racc' = NoResults
    /\ riter' = NoIter

\* results.append(self.process_data[pid]); seen_pids.add(pid)
Emitted(pid) ==
    [results |-> Append(racc.results, DictGet(process_data, pid)),
     seen |-> racc.seen \cup {pid}]

\* ProcessCache.search_processes(keyword) in the reader: the empty keyword
\* returns list(self.process_data.values()) at once; otherwise the pattern is
\* compiled and results and seen_pids are made
SearchBegin(keyword) ==
    /\ pc["reader"] = "idle"
    /\ rkw' = keyword
    /\ IF keyword = <<>>
       THEN /\ racc' = [results |-> DictValues(process_data), seen |-> {}]
            /\ riter' = NoIter
            /\ Goto("reader", "rd_done")
       ELSE /\ racc' = NoResults
            /\ riter' = [NoIter EXCEPT !.loop = "pids"]
            /\ Goto("reader", "rd_iter")
    /\ UNCHANGED readerFrame

\* "for key in self.<dict>:" is entered: the iterator is made and notes the
\* size of the dict
SearchIter ==
    /\ pc["reader"] = "rd_iter"
    /\ riter' = [riter EXCEPT !.pos = 0, !.len = Len(LoopDict(riter.loop))]
    /\ Goto("reader", "rd_next")
    /\ UNCHANGED <<readerFrame, readerVars>>

\* "for key in self.<dict>:" asks its iterator for the next key.  The
\* iterator raises RuntimeError (dictionary changed size during iteration)
\* when the dict has not the size it noted; otherwise it hands out the key at
\* its position in the dict as it is now, or the loop ends and the next loop,
\* or the return, follows.
SearchNext ==
    /\ pc["reader"] = "rd_next"
    /\ LET d == LoopDict(riter.loop)
       IN IF Len(d) # riter.len
          THEN SearchRaises
          ELSE IF riter.pos >= Len(d)
          THEN /\ riter' = [NoIter EXCEPT !.loop = FollowingLoop(riter.loop)]
               /\ Goto("reader", IF riter.loop = "users" THEN "rd_done" ELSE "rd_iter")
               /\ UNCHANGED racc
          ELSE /\ riter' = [riter EXCEPT !.pos = riter.pos + 1,
                                         !.key = d[riter.pos + 1].k]
               /\ Goto("reader", "rd_body")
               /\ UNCHANGED racc
    /\ UNCHANGED <<readerFrame, rkw>>

\* the body of the loop over self.process_data: if regex.search(pid): if pid
\* not in seen_pids: results.append(self.process_data[pid]), a KeyError when
\* the key is gone
SearchPids ==
    /\ pc["reader"] = "rd_body"
    /\ riter.loop = "pids"
    /\ IF RegexSearch(Pattern(LowerStr(rkw)), riter.key) /\ riter.key \notin racc.seen
       THEN IF DictHas(process_data, riter.key)
            THEN /\ racc' = Emitted(riter.key)
                 /\ Goto("reader", "rd_next")
                 /\ UNCHANGED riter
            ELSE SearchRaises
       ELSE /\ Goto("reader", "rd_next")
            /\ UNCHANGED <<racc, riter>>
    /\ UNCHANGED <<readerFrame, rkw>>

\* the body of the loop over self.name_index: if regex.search(name): for pid
\* in self.name_index[name]: the list is looked up, a KeyError when the key is
\* gone, and its iterator is made
SearchNames ==
    /\ pc["reader"] = "rd_body"
    /\ riter.loop = "names"
    /\ IF RegexSearch(Pattern(LowerStr(rkw)), riter.key)
       THEN IF DictHas(name_index, riter.key)
            THEN /\ riter' = [riter EXCEPT !.live = TRUE, !.list = <<>>, !.lpos = 0]
                 /\ Goto("reader", "rd_in")
                 /\ UNCHANGED racc
            ELSE SearchRaises
       ELSE /\ Goto("reader", "rd_next")
            /\ UNCHANGED <<racc, riter>>
    /\ UNCHANGED <<readerFrame, rkw>>

\* the body of the loop over self.username_index: if regex.search(username): for pid
\* in self.username_index[username]: the list is looked up, a KeyError when the key is
\* gone, and its iterator is made
SearchUsers ==
    /\ pc["reader"] = "rd_body"
    /\ riter.loop = "users"
    /\ IF RegexSearch(Pattern(LowerStr(rkw)), riter.key)
       THEN IF DictHas(username_index, riter.key)
            THEN /\ riter' = [riter EXCEPT !.live = TRUE, !.list = <<>>, !.lpos = 0]
                 /\ Goto("reader", "rd_in")
                 /\ UNCHANGED racc
            ELSE SearchRaises
       ELSE /\ Goto("reader", "rd_next")
            /\ UNCHANGED <<racc, riter>>
    /\ UNCHANGED <<readerFrame, rkw>>

\* the body of the loop over self.port_index: if regex.search(port): pid =
\* self.port_index[port], a KeyError when the key is gone
SearchPorts ==
    /\ pc["reader"] = "rd_body"
    /\ riter.loop = "ports"
    /\ IF RegexSearch(Pattern(LowerStr(rkw)), riter.key)
       THEN IF DictHas(port_index, riter.key)
            THEN /\ riter' = [riter EXCEPT !.pid = DictGet(port_index, riter.key)]
                 /\ Goto("reader", "rd_test")
                 /\ UNCHANGED racc
            ELSE SearchRaises
       ELSE /\ Goto("reader", "rd_next")
            /\ UNCHANGED <<racc, riter>>
    /\ UNCHANGED <<readerFrame, rkw>>

\* "for pid in self.<index>[key]:" asks the list's iterator for the next pid:
\* the list is read as it is now, with what was appended to it since
SearchListNext ==
    /\ pc["reader"] = "rd_in"
    /\ LET items == IF riter.live THEN DictGet(LoopDict(riter.loop), riter.key)
                    ELSE riter.list
       IN IF riter.lpos >= Len(items)
          THEN /\ riter' = [riter EXCEPT !.live = FALSE, !.list = <<>>,
                                         !.lpos = 0, !.pid = <<>>]
               /\ Goto("reader", "rd_next")
          ELSE /\ riter' = [riter EXCEPT !.lpos = riter.lpos + 1,
                                         !.pid = items[riter.lpos + 1]]
               /\ Goto("reader", "rd_test")
    /\ UNCHANGED <<readerFrame, readerVars>>

\* where the round of the loop at hand ends
RoundEnds == IF riter.loop = "ports" THEN "rd_next" ELSE "rd_in"

\* if pid not in seen_pids and pid in self.process_data:
SearchTest ==
    /\ pc["reader"] = "rd_test"
    /\ Goto("reader", IF riter.pid \notin racc.seen /\ DictHas(process_data, riter.pid)
                      THEN "rd_emit" ELSE RoundEnds)
    /\ UNCHANGED <<readerFrame, readerVars, riter>>

\* results.append(self.process_data[pid]), a KeyError when the key is gone;
\* seen_pids.add(pid)
SearchEmit ==
    /\ pc["reader"] = "rd_emit"
    /\ IF DictHas(process_data, riter.pid)
       THEN /\ racc' = Emitted(riter.pid)
            /\ Goto("reader", RoundEnds)
            /\ UNCHANGED riter
       ELSE SearchRaises
    /\ UNCHANGED <<readerFrame, rkw>>

\* return results
SearchReturn ==
    /\ pc["reader"] = "rd_done"
    /\ Goto("reader", "idle")
    /\ rkw' = <<>>
    /\ racc' = NoResults
    /\ UNCHANGED <<readerFrame, riter>>

\* the exception has left search_processes and ended the caller's call
SearchRaised ==
    /\ pc["reader"] = "rd_raised"
    /\ Goto("reader", "idle")
    /\ rkw' = <<>>
    /\ UNCHANGED <<readerFrame, racc, riter>>

\* the statements of ProcessCache.update_cache in thread t
UcStep(t) ==
    \/ UcCheck(t)
    \/ UcSet(t)
    \/ UcClearData(t)
    \/ UcClearNames(t)
    \/ UcClearPorts(t)
    \/ UcClearUsers(t)
    \/ UcStore(t)
    \/ UcNameTest(t)
    \/ UcNameEnsure(t)
    \/ UcNameAppend(t)
    \/ UcUserTest(t)
    \/ UcUserEnsure(t)
    \/ UcUserAppend(t)
    \/ UcPorts(t)
    \/ UcStamp(t)
    \/ UcValid(t)
    \/ UcFinally(t)

\* the statements of CacheManager.update_cache in thread t
UpdaterStep(t) ==
    \/ FetchOk(t)
    \/ FetchRaise(t)
    \/ UcStep(t)
    \/ CmEmit(t)
    \/ CmFailed(t)

\* the statements of kill_process after its first dialog is shown
KillStep ==
    \/ KillDeclined
    \/ KillConfirmed
    \/ KillTold
    \/ KillCheck
    \/ KillDel
    \/ KillArgs
    \/ KillWarned
    \/ KillForce

\* the statements of search_processes between its entry and its return
SearchStep ==
    \/ SearchIter
    \/ SearchNext
    \/ SearchPids
    \/ SearchNames
    \/ SearchPorts
    \/ SearchUsers
    \/ SearchListNext
    \/ SearchTest
    \/ SearchEmit

ReaderStep ==
    \/ \E k \in ReaderKeywords : SearchBegin(k)
    \/ SearchStep
    \/ SearchReturn
    \/ SearchRaised

(* Two callers of ProcessCache.update_cache: the handlers of the GUI thread *)
(* and the other thread.  The reader writes nothing the callers read, so it *)
(* is left out here and runs in SpecReader.                                 *)

Next ==
    \/ force_refresh
    \/ \E pid \in KillPids : kill_process(pid)
    \/ KillStep
    \/ UpdaterStep("main")
    \/ \E l \in ConcSources : CallUpdateCache(l)
    \/ UcStep("other")
    \/ CallReturns

Spec == Init /\ [][Next]_vars

(* The forced refresh of the GUI thread and the reader *)

NextReader ==
    \/ force_refresh
    \/ UpdaterStep("main")
    \/ ReaderStep

SpecReader == Init /\ [][NextReader]_vars

(* The handlers of the GUI thread: the timer with its queued timeouts,     *)
(* started and stopped, the forced refresh and kill_process                *)

NextTimer ==
    \/ start_auto_update
    \/ stop_auto_update
    \/ TimerTimeout
    \/ TimerDeliver
    \/ force_refresh
    \/ \E pid \in KillPids : kill_process(pid)
    \/ KillStep
    \/ UpdaterStep("main")

SpecTimer == Init /\ [][NextTimer]_vars

(* The GUI thread without the timer, one statement at a time, and the clock: *)
(* kill_process and force_refresh with no other thread at work               *)

NextKill ==
    \/ force_refresh
    \/ \E pid \in KillPids : kill_process(pid)
    \/ KillStep
    \/ UpdaterStep("main")
    \/ Tick

SpecKill == Init /\ [][NextKill]_vars

----------------------------------------------------------------------------
(* ProcessFetcher.run: the query of a worker thread *)

\* max_wait = 5 seconds, counted in sleeps of 100 milliseconds
max_wait_polls == 50

\* wait_time is a float that grows by 0.1 per sleep: after fifty additions it
\* is 4.999999999999998, still below max_wait = 5, and after fifty-one it is
\* 5.099999999999998.  The least number of additions after which
\* "wait_time < max_wait" is false:
wait_time_full == 51

\* wait_time < max_wait, for wait_time after n additions of 0.1
WaitTimeBelowMax(n) == n < wait_time_full

\* the filter of the fallback: the records of proc_list in which the pattern
\* is found in pid, name, username or the ports string
RECURSIVE FallbackLoop(_, _)
FallbackLoop(l, p) ==
    IF l = <<>> THEN <<>>
    ELSE (IF \/ RegexSearch(p, Head(l).pid)
             \/ RegexSearch(p, Head(l).name)
             \/ RegexSearch(p, Head(l).username)
             \/ RegexSearch(p, Head(l).ports)
          THEN <<Head(l)>> ELSE <<>>)
         \o FallbackLoop(Tail(l), p)

\* "if self.keyword:" and the filter: the pattern is built from the keyword as
\* it is, not lowered
FallbackFilter(l, keyword) ==
    IF keyword = <<>> THEN l ELSE FallbackLoop(l, Pattern(keyword))

runVars == <<force, wait_time, first_valid, finished>>

\* what the steps of run leave alone, apart from pc and its own locals
runFrame == <<cacheVars, seqVars, iterVars, task, proc_list, idx, raised, kill_pid,
              clean, gone, raced, is_running, timer_active, tick_pending, stack>>

\* run is left, by its return or by an exception: the thread has ended and
\* its locals and the fields of the fetcher are of no further use
RunEnds ==
    /\ Goto("reader", "run_done")
    /\ rkw' = <<>>
    /\ racc' = NoResults
    /\ force' = FALSE
    /\ wait_time' = 0
    /\ first_valid' = "none"

\* ProcessFetcher(keyword, cache, force_refresh) is built and started
RunStart(keyword, f) ==
    /\ pc["reader"] \in {"idle", "run_done"}
    /\ rkw' = keyword
    /\ racc' = NoResults
    /\ force' = f
    /\ wait_time' = 0
    /\ first_valid' = "none"
    /\ finished' = <<>>
    /\ Goto("reader", "run_check")
    /\ UNCHANGED runFrame

\* if not self.cache.is_valid() or self.force_refresh:
RunCheck ==
    /\ pc["reader"] = "run_check"
    /\ first_valid' = is_valid
    /\ Goto("reader", IF ~is_valid \/ force THEN "run_request" ELSE "run_use")
    /\ UNCHANGED <<runFrame, readerVars, force, wait_time, finished>>

\* self.update_cache.emit() (the signal is connected to nothing), max_wait = 5,
\* wait_time = 0
RunRequest ==
    /\ pc["reader"] = "run_request"
    /\ wait_time' = 0
    /\ Goto("reader", "run_wait")
    /\ UNCHANGED <<runFrame, readerVars, force, first_valid, finished>>

\* while not self.cache.is_valid() and wait_time < max_wait: the loop goes
\* on, or it is left, after which wait_time is not read again
RunWait ==
    /\ pc["reader"] = "run_wait"
    /\ IF ~is_valid /\ WaitTimeBelowMax(wait_time)
       THEN /\ Goto("reader", "run_sleep")
            /\ UNCHANGED wait_time
       ELSE /\ Goto("reader", "run_use")
            /\ wait_time' = 0
    /\ UNCHANGED <<runFrame, readerVars, force, first_valid, finished>>

\* self.msleep(100) has ended; wait_time += 0.1
RunSleep ==
    /\ pc["reader"] = "run_sleep"
    /\ wait_time' = wait_time + 1
    /\ Goto("reader", "run_wait")
    /\ UNCHANGED <<runFrame, readerVars, force, first_valid, finished>>

\* if self.cache.is_valid(): ... else: ...
RunUse ==
    /\ pc["reader"] = "run_use"
    /\ Goto("reader", IF is_valid THEN "run_search" ELSE "run_fetch")
    /\ UNCHANGED <<runFrame, readerVars, runVars>>

\* proc_list = self.cache.search_processes(self.keyword): the call is entered
\* as in SearchBegin and its statements are those of SearchStep
RunSearch ==
    /\ pc["reader"] = "run_search"
    /\ IF rkw = <<>>
       THEN /\ racc' = [results |-> DictValues(process_data), seen |-> {}]
            /\ riter' = NoIter
            /\ Goto("reader", "rd_done")
       ELSE /\ racc' = NoResults
            /\ riter' = [NoIter EXCEPT !.loop = "pids"]
            /\ Goto("reader", "rd_iter")
    /\ UNCHANGED <<readerFrame, rkw>>

\* search_processes has returned its results to run
RunSearched ==
    /\ pc["reader"] = "rd_done"
    /\ racc' = [results |-> racc.results, seen |-> {}]
    /\ Goto("reader", "run_emit")
    /\ UNCHANGED <<readerFrame, rkw, riter>>

\* an exception has left search_processes: run has no except clause, the
\* exception ends the thread and finished is never emitted
RunSearchRaised ==
    /\ pc["reader"] = "rd_raised"
    /\ RunEnds
    /\ UNCHANGED <<runFrame, finished>>

\* a fallback fetch that would also file what it fetched in the cache (used to
\* test C17's formula)
RunFetchOkPopulating ==
    /\ pc["reader"] = "run_fetch"
    /\ \E l \in ConcSources :
          /\ racc' = [results |-> l, seen |-> {}]
          /\ process_data' = Rebuilt(l).pd
    /\ Goto("reader", "run_filter")
    /\ UNCHANGED <<name_index, port_index, username_index, last_update_time,
                   is_cache_valid, update_lock, seqVars, iterVars, task, proc_list,
                   idx, raised, kill_pid, clean, gone, raced, is_running,
                   timer_active, tick_pending, stack, rkw, runVars>>

\* proc_list = SystemDataFetcher.fetch_all_processes()
RunFetchOk ==
    /\ pc["reader"] = "run_fetch"
    /\ \E l \in ConcSources : racc' = [results |-> l, seen |-> {}]
    /\ Goto("reader", "run_filter")
    /\ UNCHANGED <<runFrame, rkw, runVars>>

\* ... or the fetch raises: run has no except clause, the exception ends the
\* thread and finished is never emitted
RunFetchRaise ==
    /\ pc["reader"] = "run_fetch"
    /\ RunEnds
    /\ UNCHANGED <<runFrame, finished>>

\* if self.keyword: ... proc_list = filtered_procs
RunFilter ==
    /\ pc["reader"] = "run_filter"
    /\ racc' = [results |-> FallbackFilter(racc.results, rkw), seen |-> {}]
    /\ Goto("reader", "run_emit")
    /\ UNCHANGED <<runFrame, rkw, runVars>>

\* self.finished.emit(proc_list), and run returns
RunEmit ==
    /\ pc["reader"] = "run_emit"
    /\ finished' = Append(finished, racc.results)
    /\ RunEnds
    /\ UNCHANGED runFrame

RunStep ==
    \/ \E k \in ReaderKeywords, f \in BOOLEAN : RunStart(k, f)
    \/ RunCheck
    \/ RunRequest
    \/ RunWait
    \/ RunSleep
    \/ RunUse
    \/ RunSearch
    \/ SearchStep
    \/ RunSearched
    \/ RunSearchRaised
    \/ RunFetchOk
    \/ RunFetchRaise
    \/ RunFilter
    \/ RunEmit

\* the clock advances past the expiry of what the cache holds
Expire ==
    /\ now + cache_expiry_seconds + 1 <= StartTime + MaxElapsed
    /\ now' = now + cache_expiry_seconds + 1
    /\ lastOp' = NoOp("tick")
    /\ UNCHANGED <<cacheVars, threadVars>>

(* The query facade: one query at a time in its thread, while the GUI      *)
(* thread refreshes the cache one statement at a time and the cache ages    *)

NextFacade ==
    \/ RunStep
    \/ force_refresh
    \/ UpdaterStep("main")
    \/ Expire

SpecFacade == Init /\ [][NextFacade]_vars

(* The fallback of the query on its own: fetch_all_processes returns l and  *)
(* the filter is applied for the keyword                                    *)

Fallback(l, keyword) ==
    /\ lastOp' = [op |-> "fallback", arg |-> keyword, src |-> l,
                  ret |-> FallbackFilter(l, keyword)]
    /\ UNCHANGED <<cacheVars, now, threadVars>>

NextFallback == \E l \in SearchLists, k \in Keywords : Fallback(l, k)

SpecFallback == Init /\ [][NextFallback]_vars

----------------------------------------------------------------------------
(* What the claims speak of *)

\* the elements of a list
Range(l) == {l[i] : i \in 1..Len(l)}

\* the records of the table
TableRecords == Range(DictValues(process_data))

\* k occurs in s, letters compared without case
ContainsCI(k, s) ==
    \E i \in 0..(Len(s) - Len(k)) : \A j \in 1..Len(k) : Lower(s[i + j]) = Lower(k[j])

\* the keyword k, its '*' standing for any sequence of characters and every
\* other character for itself (without case), fits a prefix of s
RECURSIVE GlobAt(_, _)
GlobAt(k, s) ==
    IF k = <<>> THEN TRUE
    ELSE IF Head(k) = "*"
    THEN \E n \in 0..Len(s) : GlobAt(Tail(k), SubSeq(s, n + 1, Len(s)))
    ELSE s # <<>> /\ Lower(Head(s)) = Lower(Head(k)) /\ GlobAt(Tail(k), Tail(s))

\* ... fits somewhere in s
GlobFind(k, s) == \E n \in 0..Len(s) : GlobAt(k, SubSeq(s, n + 1, Len(s)))

\* the search just returned
Searched == lastOp.op = "search_processes"

\* the table and the three indices as they are
Current ==
    [pd |-> process_data, ni |-> name_index, ui |-> username_index, pix |-> port_index]

\* the record lists a complete snapshot of the reader's model is built from:
\* nothing (before the first rebuild) or what the record source returned
CompleteLists == {<<>>} \cup ConcSources

\* what search_processes(keyword) returns on the snapshot built from l
SearchOfSnapshot(l, keyword) ==
    LET c == Rebuilt(l) IN SearchIn(c.pd, c.ni, c.pix, c.ui, keyword)

----------------------------------------------------------------------------
(* C1 *)

\* C1: a search that runs while the cache is rebuilt sees a complete snapshot,
\* the one before the rebuild or the one after it: what it returns is what
\* the search returns on a snapshot built from one of the record lists, never
\* the outcome of reading a cleared or partly refilled table or index, and the
\* search is not left by an exception.
C1_SearchSeesCompleteSnapshot ==
    /\ pc["reader"] # "rd_raised"
    /\ pc["reader"] = "rd_done" =>
          \E l \in CompleteLists : racc.results = SearchOfSnapshot(l, rkw)

(* C2 *)

\* C2: at most one rebuild is in progress at any time: of two overlapping
\* callers of update_cache only one is ever inside the clear-and-refill body.
C2_OneRebuildAtATime ==
    Cardinality({t \in Updaters : InBody(t)}) <= 1

(* C3 *)

\* C3: when the two callers have both returned from update_cache, called
\* with the lists A and B (no record having been deleted meanwhile), the table
\* and the three indices are exactly those built from A or exactly those
\* built from B.
C3_FinalSnapshotIsOneInput ==
    (/\ pc["main"] = "cm_emit" /\ pc["other"] = "call_done"
     /\ clean["main"] /\ clean["other"])
    => Current \in {Rebuilt(proc_list["main"]), Rebuilt(proc_list["other"])}

(* C4 *)

\* the handler is between the start of the fetch and the end of the rebuild
\* of CacheManager.update_cache
FrameInRefresh(f) ==
    f.task \in RefreshTasks /\ (f.pc = "cm_fetch" \/ f.pc \in UcLabels)

\* the refreshes that have started their fetch and not ended their rebuild:
\* the one the GUI thread is executing and those of handlers that wait
RefreshesUnderWay ==
    Cardinality({i \in 1..Len(stack) : FrameInRefresh(stack[i])})
    + (IF InRefresh("main") THEN 1 ELSE 0)

\* C4: a forced refresh and a timer-driven refresh never overlap: at no time
\* are two fetch-then-rebuild sequences both between the start of their fetch
\* and the end of their rebuild.
C4_RefreshesDoNotOverlap ==
    RefreshesUnderWay <= 1

\* the timer has timed out while a forced refresh is inside its rebuild: the
\* call of the timer's slot is queued and waits
C4_Witness ==
    /\ tick_pending
    /\ task["main"] = "refresh"
    /\ InBody("main")

(* C10 *)

\* the removal step of kill_process is running
InRemoval ==
    task["main"] = "kill" /\ (pc["main"] = "kill_args" \/ InUpdateCache("main"))

\* C10: once the removal step of kill_process has removed the record with id
\* i, no search, for the empty keyword or for i, returns a record whose id is
\* i until a later fetch from the record source returns i again, also when
\* another rebuild was in flight during the removal (stated for the runs in
\* which no two rebuilds were ever inside update_cache's body together, so that
\* the removal is the only thing in play).
C10_RemovedStaysGone ==
    (~InRemoval /\ ~raced) =>
        \A i \in gone :
            \A r \in Range(search_processes(<<>>)) \cup Range(search_processes(i)) :
                r.pid # i

----------------------------------------------------------------------------
(* C5 *)

\* C5: is_valid() returns true exactly when the valid flag is set and
\* now - last_update_time < cache_expiry_seconds; it is false at every time
\* with now - last_update_time >= cache_expiry_seconds, the instant where the
\* age equals the expiry included.
C5_ValidIffYoungerThanExpiry ==
    lastOp.op = "is_valid" =>
        (lastOp.ret <=> (is_cache_valid /\ now - last_update_time < cache_expiry_seconds))

(* C6 *)

\* C6: right after update_cache(R) has returned, for a list R of records with
\* pairwise distinct ids, is_valid() is true and search_processes("") is R, in
\* R's order, whatever the cache held before.
C6_RebuildThenAll ==
    lastOp.op = "update_cache" =>
        /\ is_valid
        /\ search_processes(<<>>) = lastOp.arg

\* update_cache(<<P2, P1>>) has just returned
C6_Witness ==
    /\ lastOp.op = "update_cache"
    /\ lastOp.arg = <<P2, P1>>
    /\ search_processes(<<>>) = <<P2, P1>>
    /\ is_valid

(* C7 *)

\* the keyword occurs, without case, in the record's id, name, owner or one
\* of its own ports
RecordContains(k, r) ==
    \/ ContainsCI(k, r.pid)
    \/ ContainsCI(k, r.name)
    \/ ContainsCI(k, r.username)
    \/ \E q \in Range(PortsOf(r.ports)) : ContainsCI(k, q)

\* C7: for a keyword without '*', search returns exactly the records in which
\* the keyword occurs (without case) in the id, the name, the owner or one of
\* the record's own ports, also when another record claims the same port.
C7_SubstringSearch ==
    (Searched /\ "*" \notin Range(lastOp.arg)) =>
        Range(lastOp.ret) = {r \in TableRecords : RecordContains(lastOp.arg, r)}

(* C8 *)

\* the record is filed under a port the keyword fits
FiledPortFits(k, r) ==
    \E i \in 1..Len(port_index) :
        port_index[i].v = r.pid /\ GlobFind(k, port_index[i].k)

\* the keyword fits the record's id, name or owner, or a port it is filed under
RecordFits(k, r) ==
    \/ GlobFind(k, r.pid)
    \/ GlobFind(k, r.name)
    \/ GlobFind(k, r.username)
    \/ FiledPortFits(k, r)

\* C8: in search, '*' matches any possibly empty sequence of characters, every
\* other character only itself, unanchored and without case: "a*b" finds the
\* names "aXXXb" and "ab" and not "ba", and search("*") returns every record
\* of the table.
C8_Wildcard ==
    (Searched /\ lastOp.arg # <<>>) =>
        /\ Range(lastOp.ret) = {r \in TableRecords : RecordFits(lastOp.arg, r)}
        /\ lastOp.arg = <<"a", "*", "b">> =>
              /\ (P1 \in TableRecords => P1 \in Range(lastOp.ret))
              /\ (P2 \in TableRecords => P2 \in Range(lastOp.ret))
              /\ P3 \notin Range(lastOp.ret)
        /\ lastOp.arg = <<"*">> => Range(lastOp.ret) = Range(search_processes(<<>>))

(* C9 *)

\* the block of the claim a record belongs to under the searched keyword
BlockOf(k, r) ==
    LET p == Pattern(LowerStr(k))
    IN IF RegexSearch(p, r.pid) THEN 1
       ELSE IF RegexSearch(p, r.name) THEN 2
       ELSE IF \E q \in Range(PortsOf(r.ports)) : RegexSearch(p, q) THEN 3
       ELSE 4

\* C9: for a non-empty keyword the result holds each record at most once and
\* is ordered in four blocks: the records whose id matches, then those not yet
\* emitted whose name matches, then those not yet emitted that own a matching
\* port, then those not yet emitted whose owner matches.
C9_FourBlocks ==
    (Searched /\ lastOp.arg # <<>>) =>
        \A i, j \in 1..Len(lastOp.ret) :
            i < j =>
                /\ lastOp.ret[i] # lastOp.ret[j]
                /\ BlockOf(lastOp.arg, lastOp.ret[i]) <= BlockOf(lastOp.arg, lastOp.ret[j])

----------------------------------------------------------------------------
(* C11 *)

\* C11: the removal of a single record, with its index rebuild, leaves the
\* valid flag and last_update_time as they were, whether the cache was stale,
\* invalidated or valid before: no step of kill_process before its closing
\* force_refresh changes either.
C11_RemovalKeepsValidity ==
    [][(task["main"] = "kill" /\ pc["main"] # "kill_force") =>
          /\ is_cache_valid' = is_cache_valid
          /\ last_update_time' = last_update_time]_vars

(* C12 *)

\* C12: invalidate_cache changes only the valid flag: the table, the three
\* indices and last_update_time stay, every search returns what it returned
\* before, is_valid() is false after it, and once the flag is cleared
\* is_valid() becomes true again only by a rebuild.
C12_InvalidateOnlyClearsFlag ==
    [][/\ lastOp'.op = "invalidate_cache" =>
             /\ UNCHANGED <<process_data, name_index, port_index,
                            username_index, last_update_time>>
             /\ \A k \in ReaderKeywords :
                    SearchIn(process_data', name_index', port_index',
                             username_index', k) = search_processes(k)
             /\ ~is_valid'
       /\ (~is_cache_valid /\ is_valid') =>
             lastOp'.op \in {"update_cache", "kill_process"}]_vars

\* invalidate_cache has just been called on a filled cache that was valid and
\* is not expired
C12_Witness ==
    /\ lastOp.op = "invalidate_cache"
    /\ process_data # <<>>
    /\ port_index # <<>>
    /\ last_update_time > 0
    /\ ~is_expired
    /\ ~is_valid

(* C13 *)

\* C13: a refresh whose fetch fails for the whole batch changes nothing of the
\* cache (table, indices, last_update_time, valid flag): its fetch step and
\* its except clause leave the cache alone, the except clause emits
\* cache_update_failed and the handler returns without passing the emit of
\* cache_updated (or the timer's slot starts inside the failure dialog), and
\* neither step stops the timer or drops a queued timeout.
C13_FailedFetchLeavesCache ==
    [][/\ (pc["main"] = "cm_fetch" /\ pc'["main"] = "cm_failed") =>
              UNCHANGED <<cacheVars, is_running, timer_active, tick_pending>>
       /\ (pc["main"] = "cm_failed" /\ pc'["main"] # "cm_failed") =>
              /\ pc'["main"] \in {"idle", "cm_fetch"} \cup Dialogs
              /\ pc'["main"] = "cm_fetch" => task'["main"] = "timer"
              /\ UNCHANGED <<cacheVars, is_running, timer_active>>]_vars

\* the fetch of a timer-driven refresh has failed while the cache holds a
\* valid snapshot and the timer is started
C13_Witness ==
    /\ pc["main"] = "cm_failed"
    /\ task["main"] = "timer"
    /\ process_data # <<>>
    /\ is_cache_valid
    /\ timer_active

(* C14 *)

\* C14: a refresh whose fetch succeeded emits cache_updated only after its
\* own call of update_cache has rebuilt the cache: it never goes from the
\* guard of update_cache straight to the emit, also when another rebuild is in
\* flight.
C14_UpdatedOnlyAfterRebuild ==
    [][\A t \in Updaters :
          (task[t] \in RefreshTasks /\ pc[t] = "uc_check") => pc'[t] # "cm_emit"]_vars

(* C15 *)

\* C15: once stop_auto_update has returned no timer-driven refresh starts:
\* while is_running is false no queued timeout is delivered to the timer's
\* slot, also not one that was queued before the stop.
C15_NoRefreshStartsAfterStop ==
    [][~is_running => ~(tick_pending /\ ~tick_pending')]_vars

(* C16 *)

\* C16: every query of ProcessFetcher.run ends with exactly one emitted
\* result, and its wait loop sleeps at most max_wait / 100 ms = 50 times, also
\* when the cache never becomes valid.
C16_QueryAnswersWithinBudget ==
    /\ wait_time <= max_wait_polls
    /\ pc["reader"] = "run_done" => Len(finished) = 1

(* C17 *)

\* C17: the fallback of the query does not touch the cache: its fetch, its
\* filter and its emit leave the table, the indices, last_update_time, the
\* valid flag and so the answer of is_valid() as they were.
C17_FallbackLeavesCache ==
    [][(/\ pc["reader"] \in {"run_fetch", "run_filter"}
        /\ pc'["reader"] # pc["reader"])
       => /\ UNCHANGED cacheVars
          /\ is_valid' = is_valid]_vars

\* the fallback has fetched records while the cache is empty and not valid
C17_Witness ==
    /\ pc["reader"] = "run_filter"
    /\ racc.results # <<>>
    /\ process_data = <<>>
    /\ ~is_valid

(* C18 *)

\* C18: for every record list l with distinct ids and every keyword k the
\* fallback filter keeps from l the same set of records as search(k) returns
\* on a cache rebuilt from l.
C18_FallbackEqualsSearch ==
    lastOp.op = "fallback" =>
        Range(lastOp.ret) = Range(SearchOfSnapshot(lastOp.src, lastOp.arg))

(* C20 *)

\* C20: a query that found the cache valid at its first check and is not a
\* forced refresh never fetches from the record source itself.
C20_ValidQueryNeverFetches ==
    ~(pc["reader"] = "run_fetch" /\ first_valid = TRUE /\ ~force)

(* C19 *)

\* the ids stored in the name index, the owner index and the port index
IndexedPids ==
    UNION {Range(name_index[i].v) : i \in 1..Len(name_index)}
    \cup UNION {Range(username_index[i].v) : i \in 1..Len(username_index)}
    \cup {port_index[i].v : i \in 1..Len(port_index)}

\* C19: whenever no rebuild is in progress and no removal is under way, every
\* id stored in one of the three indices is a key of the table (stated for
\* the runs in which no two rebuilds were ever inside update_cache's body
\* together).
C19_NoDanglingIndex ==
    (/\ \A t \in Updaters : ~InUpdateCache(t)
     /\ ~InRemoval
     /\ ~raced)
    => IndexedPids \subseteq Range(DictKeys(process_data))

(* C21 *)

\* the records of the table that claim the port, in the table's order
RECURSIVE Claimants(_, _)
Claimants(l, port) ==
    IF l = <<>> THEN <<>>
    ELSE (IF port \in Range(PortsOf(Head(l).ports)) THEN <<Head(l)>> ELSE <<>>)
         \o Claimants(Tail(l), port)

\* the last element of a non-empty list
Last(l) == l[Len(l)]

\* C21: after a rebuild from a list of records with distinct ids, the port
\* index maps every claimed port to the id of the last record of the list
\* that claims it, the port block of a search for that port holds this record,
\* and get_process_by_port returns it (and nothing for a port no record
\* claims).
C21_LastClaimantOwnsPort ==
    /\ lastOp.op = "update_cache" =>
          \A q \in QueriedPorts :
              LET cl == Claimants(lastOp.arg, q)
              IN IF cl = <<>> THEN ~DictHas(port_index, q)
                 ELSE /\ DictHas(port_index, q)
                      /\ DictGet(port_index, q) = Last(cl).pid
                      /\ Last(cl) \in
                            Range(SearchPortBlock(process_data, port_index,
                                                  Pattern(LowerStr(q)),
                                                  NoResults).results)
    /\ lastOp.op = "get_process_by_port" =>
          LET cl == Claimants(DictValues(process_data), lastOp.arg)
          IN lastOp.ret = IF cl = <<>> THEN <<>> ELSE Last(cl)

\* get_process_by_port("80") has returned P1 from a cache rebuilt from
\* <<P2, P1>>, both of which claim port 80
C21_Witness ==
    /\ lastOp.op = "get_process_by_port"
    /\ lastOp.arg = <<"8", "0">>
    /\ DictValues(process_data) = <<P2, P1>>
    /\ lastOp.ret = P1

(* C22 *)

\* C22: whenever no thread is inside update_cache, _update_lock is false, also
\* after a rebuild that an exception left part-way; and a call of update_cache
\* that finds no other call in flight is not rejected at the guard.
C22_GuardReleased ==
    /\ (\A t \in Updaters : ~InUpdateCache(t)) => ~update_lock
    /\ \A t \in Updaters :
          (pc[t] = "uc_check" /\ \A u \in Updaters \ {t} : ~InUpdateCache(u))
          => ~update_lock

\* the rebuild of a refresh was left by an exception part-way, no thread is
\* inside update_cache, and the flag is cleared
C22_Witness ==
    /\ pc["main"] = "cm_failed"
    /\ idx["main"] > 0
    /\ \A t \in Updaters : ~InUpdateCache(t)
    /\ ~update_lock

====
